---------------------------- MODULE Spec2Model ----------------------------
(***************************************************************************)
(* Model of the log-analysis engine JsonLogAnalyzer of                     *)
(* json_logs_mcp_server.py: the file catalog (log_files_cache), the entry  *)
(* parser, the file reader, query_logs, aggregate_logs and get_log_stats.  *)
(*                                                                         *)
(* Python values are tagged records so that values of different Python     *)
(* types are unequal without being incomparable:                           *)
(*   [s |-> <<chars>>]  a str      [n |-> k]    an int                     *)
(*   [o |-> k]          a dict/list (unhashable)                           *)
(*   [dt |-> k]         a datetime [none |-> TRUE]  None                   *)
(* A dict with str keys is a function from key names to values.            *)
(***************************************************************************)
EXTENDS Integers, Sequences, FiniteSets, TLC

VARIABLES
    dirExists,   \* self.log_directory.exists()
    disk,        \* the directory's entries: name -> Absent, a directory or a file
    cache,       \* self.log_files_cache, an insertion-ordered dict, as a sequence
    result,      \* what the last engine call returned or raised, with its inputs
    memo         \* the first get_log_stats call since the disk last changed

vars == <<dirExists, disk, cache, result, memo>>

-----------------------------------------------------------------------------
(* Bounds of the model                                                     *)

MaxLines == 3        \* lines per file in the pure-function specifications
MaxFiles == 2        \* length of a caller-supplied files list
MaxLimit == 3        \* largest limit / max_lines a caller supplies
MaxPredicates == 2   \* predicates one probing query supplies

-----------------------------------------------------------------------------
(* Python values                                                           *)

None == [none |-> TRUE]
Str(cs) == [s |-> cs]
Num(k) == [n |-> k]
Unhashable == [o |-> 0]
DateTime(k) == [dt |-> k]

IsNone(v) == "none" \in DOMAIN v
IsStr(v) == "s" \in DOMAIN v

\* Python truthiness: None, "" and 0 are false
Truthy(v) ==
    CASE "none" \in DOMAIN v -> FALSE
      [] "s" \in DOMAIN v -> Len(v.s) > 0
      [] "n" \in DOMAIN v -> v.n # 0
      [] OTHER -> TRUE

\* hash(): dict and list keys raise TypeError
Hashable(v) == "o" \notin DOMAIN v

\* code points of the characters the model uses
Ord(c) ==
    CASE c = "." -> 46
      [] c = "0" -> 48 [] c = "1" -> 49 [] c = "2" -> 50 [] c = "3" -> 51
      [] c = "4" -> 52 [] c = "5" -> 53 [] c = "6" -> 54 [] c = "7" -> 55
      [] c = "8" -> 56 [] c = "9" -> 57
      [] c = "A" -> 65 [] c = "B" -> 66 [] c = "E" -> 69 [] c = "H" -> 72
      [] c = "I" -> 73 [] c = "T" -> 84 [] c = "U" -> 85
      [] c = "a" -> 97 [] c = "b" -> 98 [] c = "e" -> 101 [] c = "i" -> 105
      [] c = "x" -> 120
      [] OTHER -> 63

UpperChar(c) ==
    CASE c = "a" -> "A" [] c = "b" -> "B" [] c = "e" -> "E" [] c = "i" -> "I"
      [] c = "x" -> "X" [] OTHER -> c

LowerChar(c) ==
    CASE c = "A" -> "a" [] c = "B" -> "b" [] c = "E" -> "e" [] c = "I" -> "i"
      [] c = "H" -> "h" [] c = "T" -> "t" [] c = "U" -> "u" [] OTHER -> c

\* str.upper() / str.lower()
Upper(cs) == [i \in 1..Len(cs) |-> UpperChar(cs[i])]
Lower(cs) == [i \in 1..Len(cs) |-> LowerChar(cs[i])]

\* `sub in text` on two str
Contains(sub, text) ==
    \E i \in 0..(Len(text) - Len(sub)) :
        \A j \in 1..Len(sub) : text[i + j] = sub[j]

\* str < str: lexicographic by code point, a proper prefix is smaller
RECURSIVE StrLess(_, _)
StrLess(a, b) ==
    IF Len(b) = 0 THEN FALSE
    ELSE IF Len(a) = 0 THEN TRUE
    ELSE IF Ord(Head(a)) # Ord(Head(b)) THEN Ord(Head(a)) < Ord(Head(b))
    ELSE StrLess(Tail(a), Tail(b))

Digit(k) ==
    CASE k = 0 -> "0" [] k = 1 -> "1" [] k = 2 -> "2" [] k = 3 -> "3"
      [] k = 4 -> "4" [] k = 5 -> "5" [] k = 6 -> "6" [] k = 7 -> "7"
      [] k = 8 -> "8" [] OTHER -> "9"

DigitChars == {"0", "1", "2", "3", "4", "5", "6", "7", "8", "9"}

DigitValue(c) == Ord(c) - 48

\* comparison of two sort keys: str by code points, datetime by instant
KeyLess(a, b) ==
    IF IsStr(a) THEN StrLess(a.s, b.s) ELSE a.dt < b.dt

\* list.sort(key=..., reverse=True) over items [key, val]; the sort is
\* stable, so items with equal keys keep their original order: x goes after
\* every element that is not smaller than it.
RECURSIVE InsertDesc(_, _)
InsertDesc(x, sorted) ==
    IF sorted = <<>> THEN <<x>>
    ELSE IF KeyLess(Head(sorted).key, x.key) THEN <<x>> \o sorted
    ELSE <<Head(sorted)>> \o InsertDesc(x, Tail(sorted))

RECURSIVE SortDescFrom(_, _)
SortDescFrom(todo, sorted) ==
    IF todo = <<>> THEN sorted
    ELSE SortDescFrom(Tail(todo), InsertDesc(Head(todo), sorted))

SortDesc(items) == SortDescFrom(items, <<>>)

-----------------------------------------------------------------------------
(* The log directory                                                       *)

\* A file name is a sequence of its parts; ".log" is the part glob looks for.
AppLog == <<"app", ".log">>
OldLog == <<"old", ".log", ".1">>
Notes == <<"notes", ".txt">>
LogNames == {AppLog, OldLog}
Names == LogNames \cup {Notes}

LOG_DIR == "logs"

Absent == [kind |-> "absent"]
Dir == [kind |-> "dir"]
File(content, mtime) == [kind |-> "file", content |-> content, mtime |-> mtime]

\* st_mtime as whole seconds and a fraction
Mtime(sec, usec) == [sec |-> sec, usec |-> usec]

\* Path.glob("*.log*"): the name contains ".log"
GlobMatch(name) == \E i \in 1..Len(name) : name[i] = ".log"

\* datetime.fromtimestamp(st_mtime).isoformat(): the fraction is printed
\* only when it is not zero
MtimeIsoformat(m) ==
    IF m.usec = 0 THEN <<Digit(m.sec)>> ELSE <<Digit(m.sec), ".", Digit(m.usec)>>

\* st_size, in lines
StSize(content) == Len(content)

Descriptor(name, f) ==
    [path |-> <<LOG_DIR, name>>, name |-> name, size |-> StSize(f.content),
     modified |-> Str(MtimeIsoformat(f.mtime))]

\* the orders in which glob may yield the directory's names; the order
\* shows only when both log names are there
AllGlobOrders == {<<AppLog, OldLog, Notes>>, <<OldLog, Notes, AppLog>>}

GlobOrdersOf(dsk) ==
    IF \A n \in LogNames : dsk[n].kind # "absent" THEN AllGlobOrders
    ELSE {<<AppLog, OldLog, Notes>>}

RECURSIVE GlobbedFiles(_, _)
GlobbedFiles(dsk, order) ==
    IF order = <<>> THEN <<>>
    ELSE LET name == Head(order)
             rest == GlobbedFiles(dsk, Tail(order))
         IN IF GlobMatch(name) /\ dsk[name].kind = "file"
            THEN <<[key |-> Str(MtimeIsoformat(dsk[name].mtime)),
                    val |-> Descriptor(name, dsk[name])]>> \o rest
            ELSE rest

RefreshDropsSort(dirEx, dsk, order) ==
    IF ~dirEx THEN <<>>
    ELSE LET items == GlobbedFiles(dsk, order)
         IN [i \in 1..Len(items) |-> items[i].val]

\* _refresh_log_files: the new value of log_files_cache
RefreshLogFiles(dirEx, dsk, order) ==
    LET Values(items) == [i \in 1..Len(items) |-> items[i].val]
    IN IF ~dirEx THEN <<>> ELSE Values(SortDesc(GlobbedFiles(dsk, order)))

\* `filename in self.log_files_cache`
InCache(c, name) == \E i \in 1..Len(c) : c[i].name = name

\* self.log_files_cache[filename]
CacheGet(c, name) == c[CHOOSE i \in 1..Len(c) : c[i].name = name]

\* list(self.log_files_cache.keys())
CacheKeys(c) == [i \in 1..Len(c) |-> c[i].name]

-----------------------------------------------------------------------------
(* Entry Parser                                                            *)

RequiredFields == {"timestamp", "level", "message", "module", "function", "line"}

\* A raw line, by what json.loads makes of it
NotJson == [json |-> "invalid"]
JScalar == [json |-> "scalar"]                        \* a number, true, null
JString(has) == [json |-> "string", has |-> has]      \* has: the field names
JList(has) == [json |-> "list", has |-> has]          \*   found `in` it
JObject(obj) == [json |-> "object", obj |-> obj]

\* a timestamp string "T<d>" stands for an ISO-8601 instant, d half-hours
\* after midnight; every other string is not ISO-8601
Iso(k) == Str(<<"T", Digit(k)>>)
BadIso == Str(<<"x">>)

Returns(v) == [exc |-> "none", val |-> v]
Raises(e) == [exc |-> e, val |-> None]

\* datetime.fromisoformat
FromIsoformat(v) ==
    IF ~IsStr(v) THEN Raises("TypeError")
    ELSE IF Len(v.s) = 2 /\ v.s[1] = "T" /\ v.s[2] \in DigitChars
         THEN Returns(DateTime(DigitValue(v.s[2])))
         ELSE Raises("ValueError")

\* datetime.isoformat
Isoformat(d) == Str(<<"T", Digit(d.dt)>>)

\* parse_log_entry: the entry, None, or the exception that escapes
ParseLogEntry(line) ==
    CASE line.json = "invalid" -> Returns(None)             \* JSONDecodeError
      [] line.json = "scalar" -> Raises("TypeError")        \* `field in entry`
      [] line.json \in {"string", "list"} ->
            IF RequiredFields \subseteq line.has
            THEN Raises("TypeError")                        \* entry["timestamp"]
            ELSE Returns(None)
      [] OTHER ->
            IF RequiredFields \subseteq DOMAIN line.obj
            THEN LET ts == FromIsoformat(line.obj["timestamp"])
                 IN CASE ts.exc = "none" ->
                            Returns(("parsed_timestamp" :> ts.val) @@ line.obj)
                      [] ts.exc = "ValueError" -> Returns(None)
                      [] OTHER -> Raises(ts.exc)
            ELSE Returns(None)

-----------------------------------------------------------------------------
(* File Reader                                                             *)

\* the loop of read_log_file from line index i (0-based) on
RECURSIVE ReadLines(_, _, _, _)
ReadLines(lines, i, max_lines, entries) ==
    IF i >= Len(lines) THEN [status |-> "ok", entries |-> entries]
    ELSE IF Truthy(max_lines) /\ i >= max_lines.n
         THEN [status |-> "ok", entries |-> entries]
    ELSE LET p == ParseLogEntry(lines[i + 1])
         IN IF p.exc # "none" THEN [status |-> "RuntimeError", entries |-> <<>>]
            ELSE ReadLines(lines, i + 1, max_lines,
                           IF IsNone(p.val) THEN entries
                           ELSE Append(entries, p.val))

ReadPathNotFound(dirEx, dsk, path, max_lines) ==
    LET f == dsk[path[2]]
    IN IF ~dirEx \/ f.kind # "file"
       THEN [status |-> "FileNotFoundError", entries |-> <<>>]
       ELSE ReadLines(f.content, 0, max_lines, <<>>)

\* open(path) and the loop, under `except Exception`
ReadPath(dirEx, dsk, path, max_lines) ==
    LET f == dsk[path[2]]
    IN IF ~dirEx \/ f.kind # "file"
       THEN [status |-> "RuntimeError", entries |-> <<>>]
       ELSE ReadLines(f.content, 0, max_lines, <<>>)

ReadNeverRefreshes(dirEx, dsk, c, order, filename, max_lines) ==
    IF ~InCache(c, filename)
    THEN [status |-> "FileNotFoundError", entries |-> <<>>, cache |-> c,
          refreshes |-> 0]
    ELSE ReadPath(dirEx, dsk, CacheGet(c, filename).path, max_lines)
             @@ [cache |-> c, refreshes |-> 0]

ReadAlwaysRefreshes(dirEx, dsk, c, order, filename, max_lines) ==
    LET c2 == RefreshLogFiles(dirEx, dsk, order)
    IN IF ~InCache(c2, filename)
       THEN [status |-> "FileNotFoundError", entries |-> <<>>, cache |-> c2,
             refreshes |-> 1]
       ELSE ReadPath(dirEx, dsk, CacheGet(c2, filename).path, max_lines)
                @@ [cache |-> c2, refreshes |-> 1]

\* read_log_file: status, entries, the cache it leaves, refreshes it ran
ReadLogFile(dirEx, dsk, c, order, filename, max_lines) ==
    LET miss == ~InCache(c, filename)
        Resolve(c2) ==
            IF ~InCache(c2, filename)
            THEN [status |-> "FileNotFoundError", entries |-> <<>>, cache |-> c2,
                  refreshes |-> 1]
            ELSE ReadPath(dirEx, dsk, CacheGet(c2, filename).path, max_lines)
                     @@ [cache |-> c2, refreshes |-> IF miss THEN 1 ELSE 0]
    IN Resolve(IF miss THEN RefreshLogFiles(dirEx, dsk, order) ELSE c)

-----------------------------------------------------------------------------
(* Shared by the multi-file operations                                     *)

Min(a, b) == IF a < b THEN a ELSE b
Max(a, b) == IF a > b THEN a ELSE b

\* dict.get(key, default)
Get(entry, key, default) == IF key \in DOMAIN entry THEN entry[key] ELSE default

\* xs[:n]
SliceTo(xs, n) ==
    SubSeq(xs, 1, IF n >= 0 THEN Min(n, Len(xs)) ELSE Max(Len(xs) + n, 0))

SelectedIgnoresArgument(c, files) == CacheKeys(c)

\* files given or, for None, the names now in the cache
SelectedFiles(c, files) == IF IsNone(files) THEN CacheKeys(c) ELSE files.l

LoadStep(dirEx, dsk, order, name, acc) ==
    LET Extend(r) ==
            [entries |-> IF r.status = "ok" THEN acc.entries \o r.entries
                         ELSE acc.entries,
             cache |-> r.cache,
             refreshes |-> acc.refreshes + r.refreshes,
             read |-> Append(acc.read, r.status)]
    IN Extend(ReadLogFile(dirEx, dsk, acc.cache, order, name, None))

\* for filename in files: try: all_entries.extend(read_log_file(filename))
\*                        except (FileNotFoundError, RuntimeError): continue
RECURSIVE LoadAll(_, _, _, _, _)
LoadAll(dirEx, dsk, order, files, acc) ==
    IF files = <<>> THEN acc
    ELSE LoadAll(dirEx, dsk, order, Tail(files),
                 LoadStep(dirEx, dsk, order, Head(files), acc))

LoadStart(c) == [entries |-> <<>>, cache |-> c, refreshes |-> 0, read |-> <<>>]

-----------------------------------------------------------------------------
(* Query Engine                                                            *)

\* one bound of the time range: TRUE when the entry is dropped by it
TimeDrops(bound, timestamp, isStart) ==
    IF ~Truthy(bound) THEN FALSE
    ELSE LET b == FromIsoformat(bound)
         IN IF b.exc # "none" THEN FALSE                    \* except ValueError
            ELSE IF isStart THEN timestamp.dt < b.val.dt
                 ELSE timestamp.dt > b.val.dt

KeepsIgnoringLevel(entry, q) ==
    ~ \/ Truthy(q.module) /\ Get(entry, "module", Str(<<>>)) # q.module
      \/ Truthy(q.function) /\ Get(entry, "function", Str(<<>>)) # q.function
      \/ Truthy(q.message_contains)
           /\ ~Contains(Lower(q.message_contains.s),
                        Lower(Get(entry, "message", Str(<<>>)).s))
      \/ TimeDrops(q.start_time, entry["parsed_timestamp"], TRUE)
      \/ TimeDrops(q.end_time, entry["parsed_timestamp"], FALSE)

\* the filter loop's body: TRUE when the entry reaches filtered_entries
Keeps(entry, q) ==
    ~ \/ Truthy(q.level)
           /\ Upper(Get(entry, "level", Str(<<>>)).s) # Upper(q.level.s)
      \/ Truthy(q.module) /\ Get(entry, "module", Str(<<>>)) # q.module
      \/ Truthy(q.function) /\ Get(entry, "function", Str(<<>>)) # q.function
      \/ Truthy(q.message_contains)
           /\ ~Contains(Lower(q.message_contains.s),
                        Lower(Get(entry, "message", Str(<<>>)).s))
      \/ TimeDrops(q.start_time, entry["parsed_timestamp"], TRUE)
      \/ TimeDrops(q.end_time, entry["parsed_timestamp"], FALSE)

RECURSIVE FilterEntries(_, _)
FilterEntries(entries, q) ==
    IF entries = <<>> THEN <<>>
    ELSE IF Keeps(Head(entries), q)
         THEN <<Head(entries)>> \o FilterEntries(Tail(entries), q)
         ELSE FilterEntries(Tail(entries), q)

SortUnsorted(entries) == entries

\* filtered_entries.sort(key=parsed_timestamp, reverse=True)
SortNewestFirst(entries) ==
    LET Values(items) == [i \in 1..Len(items) |-> items[i].val]
    IN Values(SortDesc([i \in 1..Len(entries) |->
                 [key |-> entries[i]["parsed_timestamp"], val |-> entries[i]]]))

\* query_logs
QueryLogs(dirEx, dsk, c, order, q) ==
    LET Answer(loaded) ==
            [status |-> "ok",
             value |-> SliceTo(SortNewestFirst(FilterEntries(loaded.entries, q)),
                               q.limit),
             cache |-> loaded.cache,
             refreshes |-> loaded.refreshes,
             read |-> loaded.read]
    IN Answer(LoadAll(dirEx, dsk, order, SelectedFiles(c, q.files), LoadStart(c)))

-----------------------------------------------------------------------------
(* Aggregation Engine                                                      *)

UNKNOWN == Str(<<"U">>)

\* timestamp.strftime("%Y-%m-%d %H:00"): two instants to the hour
HourKey(d) == Str(<<"H", Digit(d.dt \div 2)>>)

GroupKey(entry, group_by) ==
    IF group_by = "hour" THEN HourKey(entry["parsed_timestamp"])
    ELSE Get(entry, group_by, UNKNOWN)

HasGroup(groups, key) == \E i \in 1..Len(groups) : groups[i].key = key

\* if key not in groups: groups[key] = []; groups[key].append(entry)
AddToGroup(groups, key, entry) ==
    IF HasGroup(groups, key)
    THEN [i \in 1..Len(groups) |->
            IF groups[i].key = key
            THEN [key |-> key, entries |-> Append(groups[i].entries, entry)]
            ELSE groups[i]]
    ELSE Append(groups, [key |-> key, entries |-> <<entry>>])

\* the grouping loop; an unhashable key raises TypeError
RECURSIVE GroupEntries(_, _, _)
GroupEntries(entries, group_by, groups) ==
    IF entries = <<>> THEN [exc |-> "none", groups |-> groups]
    ELSE LET key == GroupKey(Head(entries), group_by)
         IN IF ~Hashable(key) THEN [exc |-> "TypeError", groups |-> <<>>]
            ELSE GroupEntries(Tail(entries), group_by,
                              AddToGroup(groups, key, Head(entries)))

RECURSIVE MinTime(_)
MinTime(entries) ==
    IF Len(entries) = 1 THEN Head(entries)["parsed_timestamp"].dt
    ELSE Min(Head(entries)["parsed_timestamp"].dt, MinTime(Tail(entries)))

RECURSIVE MaxTime(_)
MaxTime(entries) ==
    IF Len(entries) = 1 THEN Head(entries)["parsed_timestamp"].dt
    ELSE Max(Head(entries)["parsed_timestamp"].dt, MaxTime(Tail(entries)))

\* round(count / total * 100, 2), in hundredths of a percent
Percentage(count, total) ==
    IF total = 0 THEN 0 ELSE (2 * count * 10000 + total) \div (2 * total)

GroupStats(g, total) ==
    [key |-> g.key,
     count |-> Len(g.entries),
     percentage |-> Percentage(Len(g.entries), total),
     first_seen |-> Isoformat(DateTime(MinTime(g.entries))),
     last_seen |-> Isoformat(DateTime(MaxTime(g.entries)))]

\* aggregate_logs
AggregateLogs(dirEx, dsk, c, order, files, group_by) ==
    LET Answer(loaded, grouped, total) ==
            [status |-> IF grouped.exc = "none" THEN "ok" ELSE grouped.exc,
             value |-> IF grouped.exc = "none"
                       THEN [group_by |-> group_by,
                             total_entries |-> total,
                             groups |-> [i \in 1..Len(grouped.groups) |->
                                           GroupStats(grouped.groups[i], total)]]
                       ELSE [group_by |-> group_by, total_entries |-> 0,
                             groups |-> <<>>],
             cache |-> loaded.cache,
             refreshes |-> loaded.refreshes,
             read |-> loaded.read]
        Group(loaded) ==
            Answer(loaded, GroupEntries(loaded.entries, group_by, <<>>),
                   Len(loaded.entries))
    IN Group(LoadAll(dirEx, dsk, order, SelectedFiles(c, files), LoadStart(c)))

-----------------------------------------------------------------------------
(* Corpus Statistics                                                       *)

\* levels[level] = levels.get(level, 0) + 1, the dict as a function
CountLevel(levels, level) ==
    IF level \in DOMAIN levels
    THEN [k \in DOMAIN levels |-> IF k = level THEN levels[k] + 1 ELSE levels[k]]
    ELSE (level :> 1) @@ levels

EmptyDict == [k \in {} |-> 0]

StatsStart(c) ==
    [total_entries |-> 0, levels |-> EmptyDict, modules |-> {}, functions |-> {},
     earliest_time |-> None, latest_time |-> None,
     cache |-> c, refreshes |-> 0, read |-> <<>>]

\* the body of `for entry in entries`
StatsEntry(acc, entry) ==
    LET timestamp == entry["parsed_timestamp"]
    IN [acc EXCEPT
          !.levels = CountLevel(@, Get(entry, "level", UNKNOWN)),
          !.modules = @ \cup {Get(entry, "module", UNKNOWN)},
          !.functions = @ \cup {Get(entry, "function", UNKNOWN)},
          !.earliest_time = IF IsNone(@) \/ timestamp.dt < @.dt THEN timestamp ELSE @,
          !.latest_time = IF IsNone(@) \/ timestamp.dt > @.dt THEN timestamp ELSE @]

RECURSIVE StatsEntries(_, _)
StatsEntries(acc, entries) ==
    IF entries = <<>> THEN acc
    ELSE StatsEntries(StatsEntry(acc, Head(entries)), Tail(entries))

StatsCountsFailed(dirEx, dsk, order, name, acc) ==
    LET r == ReadLogFile(dirEx, dsk, acc.cache, order, name, None)
        f == dsk[name]
        lines == IF r.status = "RuntimeError" /\ dirEx /\ f.kind = "file"
                 THEN Len(f.content) ELSE Len(r.entries)
        seen == [acc EXCEPT !.cache = r.cache,
                            !.refreshes = @ + r.refreshes,
                            !.read = Append(@, r.status)]
    IN StatsEntries([seen EXCEPT !.total_entries = @ + lines], r.entries)

\* the body of `for filename in files`, with its try/except
StatsFile(dirEx, dsk, order, name, acc) ==
    LET Count(r, seen) ==
            IF r.status # "ok" THEN seen
            ELSE StatsEntries([seen EXCEPT !.total_entries = @ + Len(r.entries)],
                              r.entries)
        Seen(r) ==
            Count(r, [acc EXCEPT !.cache = r.cache,
                                 !.refreshes = @ + r.refreshes,
                                 !.read = Append(@, r.status)])
    IN Seen(ReadLogFile(dirEx, dsk, acc.cache, order, name, None))

RECURSIVE StatsFiles(_, _, _, _, _)
StatsFiles(dirEx, dsk, order, files, acc) ==
    IF files = <<>> THEN acc
    ELSE StatsFiles(dirEx, dsk, order, Tail(files),
                    StatsFile(dirEx, dsk, order, Head(files), acc))

\* sorted(list(modules))
RECURSIVE SortedStrs(_)
SortedStrs(set) ==
    IF set = {} THEN <<>>
    ELSE LET least == CHOOSE x \in set : \A y \in set : ~StrLess(y.s, x.s)
         IN <<least>> \o SortedStrs(set \ {least})

\* round((latest - earliest).total_seconds() / 3600, 2), in hundredths
SpanHours(earliest, latest) == (latest.dt - earliest.dt) * 50

GetLogStatsCountsRead(dirEx, dsk, c, order, files) ==
    LET selected == SelectedFiles(c, files)
        acc == StatsFiles(dirEx, dsk, order, selected, StatsStart(c))
    IN [status |-> "ok",
        value |-> [total_files |->
                     Cardinality({i \in 1..Len(acc.read) : acc.read[i] = "ok"}),
                   total_entries |-> acc.total_entries,
                   levels |-> acc.levels,
                   unique_modules |-> SortedStrs(acc.modules),
                   unique_functions |-> Cardinality(acc.functions),
                   time_range |->
                     [earliest |-> IF IsNone(acc.earliest_time) THEN None
                                   ELSE Isoformat(acc.earliest_time),
                      latest |-> IF IsNone(acc.latest_time) THEN None
                                 ELSE Isoformat(acc.latest_time),
                      span_hours |-> IF IsNone(acc.earliest_time)
                                        \/ IsNone(acc.latest_time)
                                     THEN None
                                     ELSE Num(SpanHours(acc.earliest_time,
                                                        acc.latest_time))]],
        cache |-> acc.cache,
        refreshes |-> acc.refreshes,
        read |-> acc.read]

\* get_log_stats
GetLogStats(dirEx, dsk, c, order, files) ==
    LET Answer(selected, acc) ==
           [status |-> "ok",
            value |-> [total_files |-> Len(selected),
                       total_entries |-> acc.total_entries,
                       levels |-> acc.levels,
                       unique_modules |-> SortedStrs(acc.modules),
                       unique_functions |-> Cardinality(acc.functions),
                       time_range |->
                         [earliest |-> IF IsNone(acc.earliest_time) THEN None
                                       ELSE Isoformat(acc.earliest_time),
                          latest |-> IF IsNone(acc.latest_time) THEN None
                                     ELSE Isoformat(acc.latest_time),
                          span_hours |-> IF IsNone(acc.earliest_time)
                                            \/ IsNone(acc.latest_time)
                                         THEN None
                                         ELSE Num(SpanHours(acc.earliest_time,
                                                            acc.latest_time))]],
            cache |-> acc.cache,
            refreshes |-> acc.refreshes,
            read |-> acc.read]
        Over(selected) ==
            Answer(selected,
                   StatsFiles(dirEx, dsk, order, selected, StatsStart(c)))
    IN Over(SelectedFiles(c, files))

-----------------------------------------------------------------------------
(* Inputs                                                                  *)

Entry(ts, level, module, function, message) ==
    ("timestamp" :> ts) @@ ("level" :> Str(level)) @@ ("message" :> Str(message))
      @@ ("module" :> Str(module)) @@ ("function" :> Str(function))
      @@ ("line" :> Num(1))

InfoLine == JObject(Entry(Iso(1), <<"I">>, <<"a">>, <<"a">>, <<"a", "b">>))
ErrorLine == JObject(Entry(Iso(2), <<"E">>, <<"b">>, <<"a">>, <<"B">>))
LateInfoLine == JObject(Entry(Iso(3), <<"i">>, <<"a">>, <<"b">>, <<"x">>))
NestedLine == JObject(("extra" :> Unhashable)
                        @@ Entry(Iso(2), <<"e">>, <<"a">>, <<"a">>, <<"A">>))
NoLineField == JObject([k \in RequiredFields \ {"line"} |-> Str(<<"a">>)])
BadTimestamp == JObject(Entry(BadIso, <<"I">>, <<"a">>, <<"a">>, <<"a">>))
NumericTimestamp == JObject(Entry(Num(1), <<"I">>, <<"a">>, <<"a">>, <<"a">>))

\* every kind of line the parser is given
AllLines ==
    {InfoLine, ErrorLine, LateInfoLine, NestedLine, NoLineField, BadTimestamp,
     NumericTimestamp, NotJson, JScalar, JString({}), JString(RequiredFields),
     JList({}), JList(RequiredFields)}

\* the versions a log file goes through: written once, then rewritten later
FilesOf(name) ==
    {File(<<InfoLine, NotJson, ErrorLine>>, Mtime(0, 0)),
     File(<<LateInfoLine, JScalar>>, Mtime(0, 5))}

SeqsUpTo(S, n) == UNION {[1..k -> S] : k \in 0..n}

List(xs) == [l |-> xs]

FilesArgs == {None} \cup {List(xs) : xs \in SeqsUpTo(Names, MaxFiles)}

NoFilter == [files |-> None, level |-> None, module |-> None, function |-> None,
             message_contains |-> None, start_time |-> None, end_time |-> None,
             limit |-> 100]

Idle == [op |-> "none"]
NoMemo == [files |-> None, value |-> None, set |-> FALSE, refreshed |-> FALSE]

-----------------------------------------------------------------------------
(* The directory changes under the engine                                  *)

Changed == result = Idle /\ result' = Idle /\ memo' = NoMemo

MakeDirectory ==
    /\ ~dirExists
    /\ dirExists' = TRUE
    /\ UNCHANGED <<disk, cache>>
    /\ Changed

RemoveDirectory ==
    /\ dirExists
    /\ dirExists' = FALSE
    /\ disk' = [n \in Names |-> Absent]
    /\ UNCHANGED cache
    /\ Changed

\* a log file is created or rewritten
WriteFile ==
    /\ dirExists
    /\ \E name \in LogNames : \E f \in FilesOf(name) :
          /\ disk[name].kind # "dir"
          /\ disk[name] # f
          /\ disk' = [disk EXCEPT ![name] = f]
    /\ UNCHANGED <<dirExists, cache>>
    /\ Changed

\* a file that is no log file is created
WriteOtherFile ==
    /\ dirExists
    /\ disk[Notes] = Absent
    /\ disk' = [disk EXCEPT ![Notes] = File(<<InfoLine>>, Mtime(0, 5))]
    /\ UNCHANGED <<dirExists, cache>>
    /\ Changed

\* a directory whose name matches the pattern is created
MakeSubdirectory ==
    /\ dirExists
    /\ \E name \in LogNames :
          /\ disk[name] = Absent
          /\ disk' = [disk EXCEPT ![name] = Dir]
    /\ UNCHANGED <<dirExists, cache>>
    /\ Changed

\* a file or subdirectory is deleted
Delete ==
    /\ \E name \in Names :
          /\ disk[name] # Absent
          /\ disk' = [disk EXCEPT ![name] = Absent]
    /\ UNCHANGED <<dirExists, cache>>
    /\ Changed

-----------------------------------------------------------------------------
(* Engine calls                                                            *)

\* a refresh since the remembered get_log_stats call
MemoAfter(refreshes) ==
    IF memo.set /\ refreshes > 0 THEN [memo EXCEPT !.refreshed = TRUE] ELSE memo

\* get_log_files
ListLogFiles ==
    /\ result = Idle
    /\ \E order \in GlobOrdersOf(disk) :
       /\ cache' = RefreshLogFiles(dirExists, disk, order)
       /\ result' = [op |-> "get_log_files", status |-> "ok", value |-> cache']
       /\ memo' = MemoAfter(1)
       /\ UNCHANGED <<dirExists, disk>>

ReadCall(name, max_lines) ==
    /\ result = Idle
    /\ \E order \in GlobOrdersOf(disk) :
       \E r \in {ReadLogFile(dirExists, disk, cache, order, name, max_lines)} :
          /\ cache' = r.cache
          /\ result' = [op |-> "read_log_file", name |-> name,
                        max_lines |-> max_lines, before |-> cache,
                        status |-> r.status, value |-> r.entries,
                        refreshes |-> r.refreshes]
          /\ memo' = MemoAfter(r.refreshes)
          /\ UNCHANGED <<dirExists, disk>>

QueryCall(q) ==
    /\ result = Idle
    /\ \E order \in GlobOrdersOf(disk) :
       \E r \in {QueryLogs(dirExists, disk, cache, order, q)} :
          /\ cache' = r.cache
          /\ result' = [op |-> "query_logs", q |-> q, before |-> cache,
                        status |-> r.status,
                        value |-> r.value, read |-> r.read,
                        refreshes |-> r.refreshes]
          /\ memo' = MemoAfter(r.refreshes)
          /\ UNCHANGED <<dirExists, disk>>

AggregateCall(files, group_by) ==
    /\ result = Idle
    /\ \E order \in GlobOrdersOf(disk) :
       \E r \in {AggregateLogs(dirExists, disk, cache, order, files, group_by)} :
          /\ cache' = r.cache
          /\ result' = [op |-> "aggregate_logs", files |-> files,
                        group_by |-> group_by, before |-> cache,
                        status |-> r.status,
                        value |-> r.value, read |-> r.read,
                        refreshes |-> r.refreshes]
          /\ memo' = MemoAfter(r.refreshes)
          /\ UNCHANGED <<dirExists, disk>>

StatsCall(files, track) ==
    /\ result = Idle
    /\ \E order \in GlobOrdersOf(disk) :
       \E r \in {GetLogStats(dirExists, disk, cache, order, files)} :
          /\ cache' = r.cache
          /\ result' = [op |-> "get_log_stats", files |-> files,
                        status |-> r.status, value |-> r.value, read |-> r.read,
                        refreshes |-> r.refreshes, before |-> cache,
                        earlier |-> memo]
          /\ memo' = IF track /\ ~memo.set
                     THEN [files |-> files, value |-> r.value, set |-> TRUE,
                           refreshed |-> FALSE]
                     ELSE MemoAfter(r.refreshes)
          /\ UNCHANGED <<dirExists, disk>>

\* the response is handed to the caller; the next call may start
Respond ==
    /\ result # Idle
    /\ result' = Idle
    /\ UNCHANGED <<dirExists, disk, cache, memo>>

ReadLogFileOp ==
    \E name \in Names : \E max_lines \in {None, Num(1)} : ReadCall(name, max_lines)

QueryLogsOp ==
    \E files \in FilesArgs :
       QueryCall([NoFilter EXCEPT !.files = files, !.level = Str(<<"e">>)])

AggregateLogsOp ==
    \E files \in FilesArgs : AggregateCall(files, "level")

GetLogStatsOp ==
    \E files \in FilesArgs : StatsCall(files, FALSE)

-----------------------------------------------------------------------------
(* One file, every operation applied to it once                            *)

FileLines == {InfoLine, ErrorLine, LateInfoLine, NestedLine}

MalformedLines ==
    {NoLineField, BadTimestamp, NumericTimestamp, NotJson, JScalar, JString({}),
     JString(RequiredFields), JList({}), JList(RequiredFields)}

\* the file of the scenario: INFO, INFO, ERROR and one malformed line
ScenarioFiles == {<<InfoLine, InfoLine, ErrorLine, m>> : m \in MalformedLines}

\* short files with one malformed line of each kind
MalformedFiles ==
    {<<m>> : m \in MalformedLines} \cup {<<InfoLine, m>> : m \in MalformedLines}
      \cup {<<m, ErrorLine>> : m \in MalformedLines}

ProbeContents ==
    SeqsUpTo(FileLines, MaxLines) \cup ScenarioFiles \cup MalformedFiles

FilterFields ==
    {"level", "module", "function", "message_contains", "start_time", "end_time"}

ProbeQueries ==
    {q \in [files : {None},
            level : {None, Str(<<>>), Str(<<"e">>)},
            module : {None, Str(<<"a">>)},
            function : {None, Str(<<"a">>)},
            message_contains : {None, Str(<<"A">>)},
            start_time : {None, BadIso, Iso(2)},
            end_time : {None, Iso(2)},
            limit : (0 - 1)..MaxLimit] :
        Cardinality({f \in FilterFields : ~IsNone(q[f])}) <= MaxPredicates}

GroupBys == {"level", "module", "function", "hour", "extra", "missing"}

ParseProbe ==
    /\ result = Idle
    /\ \E line \in AllLines :
          LET p == ParseLogEntry(line)
          IN result' = [op |-> "parse_log_entry", line |-> line, exc |-> p.exc,
                        value |-> p.val]
    /\ UNCHANGED <<dirExists, disk, cache, memo>>

ReadProbe ==
    \E max_lines \in {None} \cup {Num(k) : k \in 0..MaxLimit} :
       ReadCall(AppLog, max_lines)

QueryProbe == \E q \in ProbeQueries : QueryCall(q)

AggregateProbe == \E group_by \in GroupBys : AggregateCall(None, group_by)

StatsProbe == StatsCall(None, FALSE)

InitFile ==
    /\ dirExists = TRUE
    /\ \E content \in ProbeContents :
          disk = [n \in Names |->
                    IF n = AppLog THEN File(content, Mtime(0, 0)) ELSE Absent]
    /\ cache = RefreshLogFiles(dirExists, disk, <<AppLog, OldLog, Notes>>)
    /\ result = Idle
    /\ memo = NoMemo

NextFile ==
    \/ ParseProbe
    \/ ReadProbe
    \/ QueryProbe
    \/ AggregateProbe
    \/ StatsProbe

SpecFile == InitFile /\ [][NextFile]_vars

-----------------------------------------------------------------------------
(* The engine over a changing directory                                    *)

Init ==
    /\ dirExists \in BOOLEAN
    /\ disk = [n \in Names |-> Absent]
    /\ cache = <<>>
    /\ result = Idle
    /\ memo = NoMemo

Next ==
    \/ MakeDirectory
    \/ RemoveDirectory
    \/ WriteFile
    \/ WriteOtherFile
    \/ MakeSubdirectory
    \/ Delete
    \/ ListLogFiles
    \/ ReadLogFileOp
    \/ QueryLogsOp
    \/ AggregateLogsOp
    \/ GetLogStatsOp
    \/ Respond

Spec == Init /\ [][Next]_vars

-----------------------------------------------------------------------------
(* The same engine, remembering the first get_log_stats call made since    *)
(* the directory last changed                                              *)

\* files absent, one name, or a stale name beside a fresh one
TrackedFiles ==
    {None} \cup {List(<<n>>) : n \in Names} \cup {List(<<AppLog, OldLog>>)}

TrackedStatsOp ==
    \E files \in TrackedFiles : StatsCall(files, TRUE)

NextTracked ==
    \/ MakeDirectory
    \/ RemoveDirectory
    \/ WriteFile
    \/ WriteOtherFile
    \/ MakeSubdirectory
    \/ Delete
    \/ ListLogFiles
    \/ ReadLogFileOp
    \/ QueryLogsOp
    \/ AggregateLogsOp
    \/ TrackedStatsOp
    \/ Respond

SpecTracked == Init /\ [][NextTracked]_vars

-----------------------------------------------------------------------------
(* One call running statement by statement while another thread refreshes  *)
(* the catalog and the directory changes.  `result` holds the running      *)
(* call's frame: its position pc, the names it goes through, the index i   *)
(* of the name being read, and what it has collected.                      *)

\* what query_logs does with all_entries
QueryValue(entries, q) ==
    SliceTo(SortNewestFirst(FilterEntries(entries, q)), q.limit)

\* what aggregate_logs does with all_entries
AggregateValue(entries, group_by) ==
    LET grouped == GroupEntries(entries, group_by, <<>>)
        total == Len(entries)
    IN IF grouped.exc # "none" THEN [status |-> grouped.exc, value |-> None]
       ELSE [status |-> "ok",
             value |-> [group_by |-> group_by,
                        total_entries |-> total,
                        groups |-> [i \in 1..Len(grouped.groups) |->
                                      GroupStats(grouped.groups[i], total)]]]

\* what get_log_stats returns for the entries of the files that read
StatsValue(files, entries) ==
    LET acc == StatsEntries(StatsStart(<<>>), entries)
    IN [total_files |-> Len(files),
        total_entries |-> Len(entries),
        levels |-> acc.levels,
        unique_modules |-> SortedStrs(acc.modules),
        unique_functions |-> Cardinality(acc.functions),
        time_range |->
          [earliest |-> IF IsNone(acc.earliest_time) THEN None
                        ELSE Isoformat(acc.earliest_time),
           latest |-> IF IsNone(acc.latest_time) THEN None
                      ELSE Isoformat(acc.latest_time),
           span_hours |-> IF IsNone(acc.earliest_time) \/ IsNone(acc.latest_time)
                          THEN None
                          ELSE Num(SpanHours(acc.earliest_time, acc.latest_time))]]

\* a call about to resolve the first of its names
Frame(op, arg, files) ==
    [op |-> op, pc |-> "check", arg |-> arg, files |-> files, i |-> 1,
     path |-> None, entries |-> <<>>, read |-> <<>>]

\* the call has ended: with a value, or with the exception it lets through
Done(f, status, value) ==
    [op |-> f.op, pc |-> "done", arg |-> f.arg, files |-> f.files,
     status |-> status, value |-> value, read |-> f.read]

\* the loop over the files is over
Finish(f) ==
    IF f.op = "query_logs" THEN Done(f, "ok", QueryValue(f.entries, f.arg))
    ELSE IF f.op = "aggregate_logs"
         THEN LET a == AggregateValue(f.entries, f.arg.group_by)
              IN Done(f, a.status, a.value)
         ELSE Done(f, "ok", StatsValue(f.files, f.entries))

\* read_log_file of the i-th name has returned or raised FileNotFoundError /
\* RuntimeError: its caller returns it, or skips the file and goes on
AfterFile(f, status, entries) ==
    IF f.op = "read_log_file"
    THEN Done(f, status, IF status = "ok" THEN entries ELSE None)
    ELSE LET g == [f EXCEPT !.entries = IF status = "ok" THEN @ \o entries ELSE @,
                            !.read = Append(@, status),
                            !.i = @ + 1, !.pc = "check", !.path = None]
         IN IF g.i > Len(g.files) THEN Finish(g) ELSE g

\* the call begins; files absent takes the names of the catalog as it is now
Begin(op, arg, files) ==
    LET f == Frame(op, arg, SelectedFiles(cache, files))
    IN IF f.files = <<>> THEN Finish(f) ELSE f

Running == result # Idle /\ result.pc # "done"

ThreadFilesArgs == {None, List(<<AppLog>>), List(<<OldLog, AppLog>>)}

ThreadReadCall ==
    /\ result = Idle
    /\ \E name \in LogNames : \E max_lines \in {None, Num(1)} :
          result' = Frame("read_log_file", [max_lines |-> max_lines], <<name>>)
    /\ UNCHANGED <<dirExists, disk, cache, memo>>

ThreadQueryCall ==
    /\ result = Idle
    /\ \E files \in ThreadFilesArgs :
          result' = Begin("query_logs",
                          [NoFilter EXCEPT !.files = files, !.level = Str(<<"e">>)],
                          files)
    /\ UNCHANGED <<dirExists, disk, cache, memo>>

ThreadAggregateCall ==
    /\ result = Idle
    /\ \E files \in ThreadFilesArgs :
          result' = Begin("aggregate_logs", [group_by |-> "level"], files)
    /\ UNCHANGED <<dirExists, disk, cache, memo>>

ThreadStatsCall ==
    /\ result = Idle
    /\ \E files \in ThreadFilesArgs :
          result' = Begin("get_log_stats", [files |-> files], files)
    /\ UNCHANGED <<dirExists, disk, cache, memo>>

\* if filename not in self.log_files_cache:
ThreadCheck ==
    /\ Running /\ result.pc = "check"
    /\ result' = [result EXCEPT !.pc = IF InCache(cache, result.files[result.i])
                                       THEN "lookup" ELSE "refresh"]
    /\ UNCHANGED <<dirExists, disk, cache, memo>>

\* self._refresh_log_files()
ThreadRefresh ==
    /\ Running /\ result.pc = "refresh"
    /\ \E order \in GlobOrdersOf(disk) :
          cache' = RefreshLogFiles(dirExists, disk, order)
    /\ result' = [result EXCEPT !.pc = "recheck"]
    /\ UNCHANGED <<dirExists, disk, memo>>

\* if filename not in self.log_files_cache: raise FileNotFoundError
ThreadRecheck ==
    /\ Running /\ result.pc = "recheck"
    /\ result' = IF InCache(cache, result.files[result.i])
                 THEN [result EXCEPT !.pc = "lookup"]
                 ELSE AfterFile(result, "FileNotFoundError", <<>>)
    /\ UNCHANGED <<dirExists, disk, cache, memo>>

\* file_path = Path(self.log_files_cache[filename]["path"]), outside the try:
\* a name no longer in the dict raises KeyError, which no caller catches
ThreadLookup ==
    /\ Running /\ result.pc = "lookup"
    /\ result' = IF InCache(cache, result.files[result.i])
                 THEN [result EXCEPT
                         !.pc = "open",
                         !.path = CacheGet(cache, result.files[result.i]).path]
                 ELSE Done(result, "KeyError", None)
    /\ UNCHANGED <<dirExists, disk, cache, memo>>

\* the try block: open, read and parse the lines
ThreadOpen ==
    /\ Running /\ result.pc = "open"
    /\ \E r \in {ReadPath(dirExists, disk, result.path,
                          IF result.op = "read_log_file"
                          THEN result.arg.max_lines ELSE None)} :
          result' = AfterFile(result, r.status, r.entries)
    /\ UNCHANGED <<dirExists, disk, cache, memo>>

ThreadReturn ==
    /\ result # Idle /\ result.pc = "done"
    /\ result' = Idle
    /\ UNCHANGED <<dirExists, disk, cache, memo>>

\* another thread runs _refresh_log_files (a listing, or a miss of its own)
OtherThreadRefresh ==
    /\ \E order \in GlobOrdersOf(disk) :
          /\ cache' = RefreshLogFiles(dirExists, disk, order)
          /\ cache' # cache
    /\ UNCHANGED <<dirExists, disk, result, memo>>

\* a log file is written or deleted, at any moment
FileWritten ==
    /\ \E name \in LogNames : \E f \in FilesOf(name) :
          /\ disk[name] # f
          /\ disk' = [disk EXCEPT ![name] = f]
    /\ UNCHANGED <<dirExists, cache, result, memo>>

FileDeleted ==
    /\ \E name \in LogNames :
          /\ disk[name] # Absent
          /\ disk' = [disk EXCEPT ![name] = Absent]
    /\ UNCHANGED <<dirExists, cache, result, memo>>

InitThreads ==
    /\ dirExists = TRUE
    /\ disk = [n \in Names |-> Absent]
    /\ cache = <<>>
    /\ result = Idle
    /\ memo = NoMemo

NextThreads ==
    \/ ThreadReadCall
    \/ ThreadQueryCall
    \/ ThreadAggregateCall
    \/ ThreadStatsCall
    \/ ThreadCheck
    \/ ThreadRefresh
    \/ ThreadRecheck
    \/ ThreadLookup
    \/ ThreadOpen
    \/ ThreadReturn
    \/ OtherThreadRefresh
    \/ FileWritten
    \/ FileDeleted

SpecThreads == InitThreads /\ [][NextThreads]_vars

-----------------------------------------------------------------------------
(* Claims about the catalog and the multi-file operations (Spec)           *)

\* the name is a regular log file of the directory right now
OnDiskAsLogFile(name) ==
    dirExists /\ name \in LogNames /\ disk[name].kind = "file"

ModTime(m) == m.sec * 10 + m.usec

LogFilesOnDisk == {n \in LogNames : dirExists /\ disk[n].kind = "file"}

\* C2: get_log_files returns exactly the log files on disk at the call, each
\* once and with its size and modification time, newest first, and the empty
\* list when the directory does not exist.
C2_ListIsTheDiskNewestFirst ==
    result.op = "get_log_files" =>
       /\ result.status = "ok"
       /\ {result.value[i].name : i \in 1..Len(result.value)} = LogFilesOnDisk
       /\ Len(result.value) = Cardinality(LogFilesOnDisk)
       /\ \A i \in 1..Len(result.value) :
             /\ result.value[i].size = Len(disk[result.value[i].name].content)
             /\ result.value[i].modified
                  = Str(MtimeIsoformat(disk[result.value[i].name].mtime))
       /\ \A i, j \in 1..Len(result.value) :
             i < j => ModTime(disk[result.value[i].name].mtime)
                        >= ModTime(disk[result.value[j].name].mtime)
       /\ (~dirExists => result.value = <<>>)

\* a listing of two files of different age beside a file that is no log
\* file, after the catalog held something else
C2_Witness ==
    /\ result.op = "get_log_files"
    /\ Len(result.value) = 2
    /\ result.value[1].modified # result.value[2].modified
    /\ disk[Notes] # Absent

\* the selected names whose read succeeded, in order
RECURSIVE OkFiles(_, _)
OkFiles(files, read) ==
    IF files = <<>> THEN <<>>
    ELSE IF Head(read) = "ok"
         THEN <<Head(files)>> \o OkFiles(Tail(files), Tail(read))
         ELSE OkFiles(Tail(files), Tail(read))

MultiFileOps == {"query_logs", "aggregate_logs", "get_log_stats"}

CallFiles == IF result.op = "query_logs" THEN result.q.files ELSE result.files

\* the value of the same call over only the files that read successfully
OverOkFiles(order) ==
    LET ok == List(OkFiles(SelectedFiles(result.before, CallFiles), result.read))
    IN CASE result.op = "query_logs" ->
               QueryLogs(dirExists, disk, result.before, order,
                         [result.q EXCEPT !.files = ok]).value
         [] result.op = "aggregate_logs" ->
               AggregateLogs(dirExists, disk, result.before, order, ok,
                             result.group_by).value
         [] OTHER ->
               GetLogStats(dirExists, disk, result.before, order, ok).value

\* C4 as stated: a file that fails to resolve or to read is skipped, the
\* operation does not fail, and the result is that of the same operation over
\* only the files that read successfully.
C4_ResultIsThatOfTheReadableFiles ==
    result.op \in MultiFileOps =>
       /\ result.status = "ok"
       /\ \A order \in AllGlobOrders : result.value = OverOkFiles(order)

\* C4 amended: as above, except that get_log_stats reports total_files as the
\* number of selected names, the skipped ones included.
C4_ResultIsThatOfTheReadableFilesButTotalFiles ==
    result.op \in MultiFileOps =>
       /\ result.status = "ok"
       /\ \A order \in AllGlobOrders : \A v \in {OverOkFiles(order)} :
             IF result.op = "get_log_stats"
             THEN /\ [result.value EXCEPT !.total_files = 0]
                       = [v EXCEPT !.total_files = 0]
                  /\ result.value.total_files
                       = Len(SelectedFiles(result.before, CallFiles))
             ELSE result.value = v

\* get_log_stats over a file that could not be read and one that could
C4_Witness ==
    /\ result.op = "get_log_stats"
    /\ \E i, j \in 1..Len(result.read) :
          result.read[i] = "RuntimeError" /\ result.read[j] = "ok"
    /\ result.value.total_entries > 0

-----------------------------------------------------------------------------
(* Claims about one file's lines (SpecFile)                                *)

\* what makes a line an entry: a JSON object with the six fields whose
\* timestamp is an ISO-8601 string
ValidLine(line) ==
    /\ line.json = "object"
    /\ RequiredFields \subseteq DOMAIN line.obj
    /\ \E k \in 0..9 : line.obj["timestamp"] = Iso(k)

ValidCount(lines) == Cardinality({i \in 1..Len(lines) : ValidLine(lines[i])})

TheFile == disk[AppLog].content

\* C3: parse_log_entry never raises and gives None for a line that is no
\* entry; read_log_file skips such lines and returns the file's valid entries.
C3_ParseNeverRaises ==
    /\ result.op = "parse_log_entry" =>
          /\ result.exc = "none"
          /\ ~ValidLine(result.line) => IsNone(result.value)
    /\ (result.op = "read_log_file" /\ IsNone(result.max_lines)) =>
          /\ result.status = "ok"
          /\ Len(result.value) = ValidCount(TheFile)

\* the lines the cap lets the reader examine
FirstLines(lines, max_lines) ==
    IF IsNone(max_lines) THEN lines
    ELSE SubSeq(lines, 1, Min(Max(max_lines.n, 0), Len(lines)))

RECURSIVE EntriesOf(_)
EntriesOf(lines) ==
    IF lines = <<>> THEN <<>>
    ELSE IF ValidLine(Head(lines))
         THEN <<ParseLogEntry(Head(lines)).val>> \o EntriesOf(Tail(lines))
         ELSE EntriesOf(Tail(lines))

NoLineRaises(lines) ==
    \A i \in 1..Len(lines) : ParseLogEntry(lines[i]).exc = "none"

\* C7: read_log_file(name, max_lines) returns the valid entries among the
\* first max_lines lines, for every max_lines given, 0 included, and those of
\* every line when max_lines is not given (stated for files none of whose
\* lines makes the parser raise).
C7_CapBoundsLinesExamined ==
    (result.op = "read_log_file" /\ NoLineRaises(TheFile)) =>
       /\ result.status = "ok"
       /\ result.value = EntriesOf(FirstLines(TheFile, result.max_lines))

-----------------------------------------------------------------------------
(* Claims about query_logs (SpecFile)                                      *)

FilterNames ==
    {"level", "module", "function", "message_contains", "start_time", "end_time"}

\* a predicate the caller supplied: not None and not the empty string, and
\* for a time bound a string that parses
Supplied(q, f) ==
    /\ IsStr(q[f])
    /\ q[f].s # <<>>
    /\ f \in {"start_time", "end_time"} => \E k \in 0..9 : q[f] = Iso(k)

Instant(v) == CHOOSE k \in 0..9 : v = Iso(k)

\* the entry satisfies predicate f of the query
Satisfies(entry, q, f) ==
    CASE f = "level" -> Lower(entry["level"].s) = Lower(q.level.s)
      [] f = "module" -> entry["module"] = q.module
      [] f = "function" -> entry["function"] = q.function
      [] f = "message_contains" ->
            Contains(Lower(q.message_contains.s), Lower(entry["message"].s))
      [] f = "start_time" -> Instant(entry["timestamp"]) >= Instant(q.start_time)
      [] OTHER -> Instant(entry["timestamp"]) <= Instant(q.end_time)

Matches(entry, q) ==
    \A f \in FilterNames : Supplied(q, f) => Satisfies(entry, q, f)

Returned == {result.value[i] : i \in 1..Len(result.value)}

\* the query with predicate f removed
Without(q, f) == [q EXCEPT ![f] = None]

ValueOf(q) == QueryLogs(dirExists, disk, result.before, <<AppLog, OldLog, Notes>>, q).value

ValuesOf(q) == UNION {{v[i] : i \in 1..Len(v)} : v \in {ValueOf(q)}}

\* C5 as stated: every returned entry satisfies every supplied predicate,
\* and for any limit removing one predicate gives a result that contains
\* every entry of the original result.
C5_ConjunctiveAndMonotoneForAnyLimit ==
    result.op = "query_logs" =>
       /\ \A e \in Returned : Matches(e, result.q)
       /\ \A f \in FilterNames :
             Supplied(result.q, f) => Returned \subseteq ValuesOf(Without(result.q, f))

Untruncated(q) == [q EXCEPT !.limit = 100]

\* C5 amended: every returned entry satisfies every supplied predicate;
\* removing one predicate can only grow the set of matching entries, and the
\* result contains every entry of the original result whenever limit does
\* not truncate the relaxed query (limit >= the number of its matches).
C5_ConjunctiveAndMonotoneUntruncated ==
    result.op = "query_logs" =>
       /\ \A e \in Returned : Matches(e, result.q)
       /\ \A matching \in {ValuesOf(Untruncated(result.q))} :
          \A f \in FilterNames :
             Supplied(result.q, f) =>
                \A all \in {ValueOf(Untruncated(Without(result.q, f)))} :
                   /\ matching \subseteq {all[i] : i \in 1..Len(all)}
                   /\ result.q.limit >= Len(all) =>
                        Returned \subseteq ValuesOf(Without(result.q, f))

\* a query of two predicates with a result that grows when one is removed
C5_Witness ==
    /\ result.op = "query_logs"
    /\ Supplied(result.q, "level")
    /\ Supplied(result.q, "end_time")
    /\ Len(result.value) > 0
    /\ result.q.limit >= Len(ValueOf(Untruncated(Without(result.q, "level"))))
    /\ Len(ValueOf(Without(result.q, "level"))) > Len(result.value)

\* the file's entries that match the query
FileEntries == ReadLines(TheFile, 0, None, <<>>).entries

MatchingEntries(q) ==
    {i \in 1..Len(FileEntries) : Matches(FileEntries[i], q)}

NewestFirst(entries) ==
    \A i, j \in 1..Len(entries) :
       i < j => Instant(entries[i]["timestamp"]) >= Instant(entries[j]["timestamp"])

NoNewerLeftOut(q) ==
    \A i \in MatchingEntries(q) :
       FileEntries[i] \notin Returned =>
          \A e \in Returned :
             Instant(FileEntries[i]["timestamp"]) <= Instant(e["timestamp"])

ScenarioQuery == [NoFilter EXCEPT !.level = Str(<<"e">>), !.limit = 1]

ScenarioHolds ==
    (TheFile = <<InfoLine, InfoLine, ErrorLine>> /\ result.q = ScenarioQuery) =>
       /\ Len(result.value) = 1
       /\ result.value[1]["level"] = Str(<<"E">>)
       /\ result.value[1]["timestamp"] = Iso(2)

\* C6 as stated: for every integer limit the result is the matching entries
\* newest first, at most limit and exactly min(limit, matches) of them, no
\* newer match left out; level "error", limit 1 on INFO, INFO, ERROR gives
\* the ERROR entry.
C6_NewestFirstTruncatedForEveryLimit ==
    result.op = "query_logs" =>
       /\ Returned \subseteq {FileEntries[i] : i \in MatchingEntries(result.q)}
       /\ NewestFirst(result.value)
       /\ NoNewerLeftOut(result.q)
       /\ Len(result.value) <= result.q.limit
       /\ Len(result.value)
            = Min(result.q.limit, Cardinality(MatchingEntries(result.q)))
       /\ ScenarioHolds

\* C6 amended: the same for every limit >= 0; for a negative limit the
\* result is still the newest matches in order, but not empty.
C6_NewestFirstTruncatedForNonNegativeLimit ==
    result.op = "query_logs" =>
       /\ Returned \subseteq {FileEntries[i] : i \in MatchingEntries(result.q)}
       /\ NewestFirst(result.value)
       /\ NoNewerLeftOut(result.q)
       /\ result.q.limit >= 0 =>
             /\ Len(result.value) <= result.q.limit
             /\ Len(result.value)
                  = Min(result.q.limit, Cardinality(MatchingEntries(result.q)))
       /\ ScenarioHolds

\* a result cut to limit that leaves older matches out
C6_Witness ==
    /\ result.op = "query_logs"
    /\ Supplied(result.q, "module")
    /\ result.q.limit = 2
    /\ Len(result.value) = 2
    /\ Cardinality(MatchingEntries(result.q)) = 3
    /\ result.value[1]["timestamp"] # result.value[2]["timestamp"]

-----------------------------------------------------------------------------
(* Claims about aggregate_logs and get_log_stats (SpecFile)                *)

RECURSIVE SumCounts(_)
SumCounts(groups) ==
    IF groups = <<>> THEN 0 ELSE Head(groups).count + SumCounts(Tail(groups))

\* C8: for every group_by, aggregate_logs puts each read entry in exactly
\* one group: the counts sum to total_entries, the number of entries read,
\* and a result without entries has no groups.
C8_GroupsPartitionTheEntries ==
    result.op = "aggregate_logs" =>
       /\ result.status = "ok"
       /\ result.value.total_entries = Len(FileEntries)
       /\ SumCounts(result.value.groups) = result.value.total_entries
       /\ \A i, j \in 1..Len(result.value.groups) :
             i # j => result.value.groups[i].key # result.value.groups[j].key
       /\ result.value.total_entries = 0 => result.value.groups = <<>>

RECURSIVE SumLevels(_)
SumLevels(levels) ==
    IF DOMAIN levels = {} THEN 0
    ELSE LET k == CHOOSE x \in DOMAIN levels : TRUE
         IN levels[k] + SumLevels([x \in DOMAIN levels \ {k} |-> levels[x]])

\* C9: get_log_stats counts the valid lines of the files that read
\* successfully and nothing else, the level counts sum to total_entries, and
\* a file of INFO, INFO, ERROR and one malformed line gives total_entries 3
\* with INFO 2 and ERROR 1.
C9_StatsCountValidEntries ==
    result.op = "get_log_stats" =>
       /\ result.value.total_entries
            = (IF result.read = <<"ok">> THEN ValidCount(TheFile) ELSE 0)
       /\ SumLevels(result.value.levels) = result.value.total_entries
       /\ TheFile \in ScenarioFiles =>
             /\ result.value.total_entries = 3
             /\ result.value.levels = (Str(<<"I">>) :> 2) @@ (Str(<<"E">>) :> 1)

-----------------------------------------------------------------------------
(* Claims about repeated get_log_stats calls (SpecTracked)                 *)

\* this get_log_stats call repeats the remembered one: same files argument,
\* no change of the directory in between
RepeatsEarlierCall ==
    /\ result.op = "get_log_stats"
    /\ result.earlier.set
    /\ result.earlier.files = result.files

\* C10 as stated: two get_log_stats calls with the same arguments and no
\* change of the files between them return identical results, whatever
\* other engine operations run in between.
C10_StatsRepeatWhateverRunsBetween ==
    RepeatsEarlierCall => result.value = result.earlier.value

\* C10 amended: they return identical results when files is given, and when
\* files is absent provided no operation in between refreshed the catalog.
C10_StatsRepeatUnlessCatalogRefreshed ==
    (RepeatsEarlierCall /\ (~IsNone(result.files) \/ ~result.earlier.refreshed))
       => result.value = result.earlier.value

\* a repeated call over the whole catalog, after other calls that did not
\* refresh it, that counts entries
C10_Witness ==
    /\ RepeatsEarlierCall
    /\ IsNone(result.files)
    /\ ~result.earlier.refreshed
    /\ result.value.total_entries > 0
    /\ Len(cache) # Cardinality(LogFilesOnDisk)


-----------------------------------------------------------------------------
(* Claims about calls interleaved with a refresh (SpecThreads)             *)

DirectoryStates == [Names -> {Absent} \cup FilesOf(AppLog)]

\* the catalog is the whole listing of one state of the directory
CatalogIsWhole ==
    \E d \in DirectoryStates : \E order \in AllGlobOrders :
       cache = RefreshLogFiles(TRUE, d, order)

\* C11: under any interleaving of a refresh with a read_log_file,
\* query_logs, aggregate_logs or get_log_stats of another thread the catalog
\* a reader sees is never a partial one, and the reader's call ends only
\* with its normal result, NotFound (FileNotFoundError) or ReadError
\* (RuntimeError).
C11_SafeWithoutLocking ==
    /\ CatalogIsWhole
    /\ (result # Idle /\ result.pc = "done")
          => result.status \in {"ok", "FileNotFoundError", "RuntimeError"}


-----------------------------------------------------------------------------
(* Claims about when the catalog is refreshed (Spec)                       *)

\* the entries of the files a catalog names, as they are on disk now
RECURSIVE CatalogEntries(_)
CatalogEntries(c) ==
    IF c = <<>> THEN <<>>
    ELSE LET r == ReadPath(dirExists, disk, Head(c).path, None)
         IN (IF r.status = "ok" THEN r.entries ELSE <<>>)
               \o CatalogEntries(Tail(c))

\* the call's value computed from the catalog as it was when the call began
OverCatalogBefore ==
    LET entries == CatalogEntries(result.before)
    IN CASE result.op = "query_logs" -> QueryValue(entries, result.q)
         [] result.op = "aggregate_logs" ->
               AggregateValue(entries, result.group_by).value
         [] OTHER -> StatsValue(CacheKeys(result.before), entries)

\* some name the call went through was not in the catalog
MissedAName ==
    LET files == IF result.op = "read_log_file" THEN <<result.name>>
                 ELSE SelectedFiles(result.before, CallFiles)
    IN \E i \in 1..Len(files) : ~InCache(result.before, files[i])

\* C12: a call refreshes the catalog only on a resolve miss (or as a
\* listing); query_logs, aggregate_logs and get_log_stats with files absent
\* take their file set from the catalog as of the last refresh and leave it
\* unchanged, so a log file created since then contributes no entries.
C12_RefreshOnlyOnMissOrListing ==
    /\ result.op \in MultiFileOps \cup {"read_log_file"} =>
          /\ result.refreshes > 0 => MissedAName
          /\ result.refreshes = 0 => cache = result.before
    /\ (result.op \in MultiFileOps /\ IsNone(CallFiles)) =>
          /\ result.refreshes = 0
          /\ cache = result.before
          /\ Len(result.read) = Len(result.before)
          /\ result.value = OverCatalogBefore

\* a call over the whole catalog that returns entries while a log file
\* created since the last refresh is on disk
C12_Witness ==
    /\ result.op \in MultiFileOps /\ IsNone(CallFiles)
    /\ \E n \in LogFilesOnDisk :
          /\ ~InCache(result.before, n)
          /\ ReadPath(dirExists, disk, <<LOG_DIR, n>>, None).status = "ok"
          /\ ReadPath(dirExists, disk, <<LOG_DIR, n>>, None).entries # <<>>
    /\ CatalogEntries(result.before) # <<>>
    /\ result.value = OverCatalogBefore


-----------------------------------------------------------------------------
(* Claims about a stale descriptor (Spec)                                  *)

\* the catalog named the file when the call began, and the file is gone
StaleDescriptor ==
    /\ result.op = "read_log_file"
    /\ InCache(result.before, result.name)
    /\ ~OnDiskAsLogFile(result.name)

\* C13: read_log_file of a name whose descriptor is in the catalog while the
\* file has been deleted does not refresh, fails with RuntimeError and leaves
\* the descriptor in the catalog; FileNotFoundError is returned only for a
\* name whose descriptor is not in the catalog.
C13_StaleDescriptorGivesReadError ==
    /\ StaleDescriptor =>
          /\ result.status = "RuntimeError"
          /\ result.refreshes = 0
          /\ cache = result.before
          /\ InCache(cache, result.name)
    /\ (result.op = "read_log_file" /\ result.status = "FileNotFoundError") =>
          /\ ~InCache(result.before, result.name)
          /\ ~InCache(cache, result.name)

\* read_log_file of a file deleted since the refresh that listed it
C13_Witness ==
    /\ StaleDescriptor
    /\ dirExists
    /\ disk[result.name] = Absent
    /\ result.status = "RuntimeError"


-----------------------------------------------------------------------------
(* Claims about total_files (Spec)                                         *)

\* the files of this call that were read, not skipped
FilesRead == Cardinality({i \in 1..Len(result.read) : result.read[i] = "ok"})

\* C14: get_log_stats reports total_files as the number of names in the
\* selected list: the size of the catalog when files is absent, the length
\* of the supplied list otherwise, duplicates and skipped files included, so
\* it is never less than the number of files that were read.
C14_TotalFilesCountsSelectedNames ==
    result.op = "get_log_stats" =>
       /\ result.value.total_files
            = IF IsNone(result.files) THEN Len(result.before)
              ELSE Len(result.files.l)
       /\ Len(result.read) = result.value.total_files
       /\ result.value.total_files >= FilesRead

\* total_files exceeds the number of files that contributed entries
C14_Witness ==
    /\ result.op = "get_log_stats"
    /\ ~IsNone(result.files)
    /\ result.value.total_entries > 0
    /\ result.value.total_files > FilesRead
    /\ FilesRead > 0

=============================================================================
